---- MODULE Spec2Model ----
(***************************************************************************)
(* Model of the two branch-cleanup scripts, git-clean.js and               *)
(* git-cleanup.js.  A text is a sequence of one-character strings, so that *)
(* split, trim and includes are computed character by character as the     *)
(* JavaScript string methods compute them.  The git client and the         *)
(* inquirer prompts are the environment: each call's outcome is an input   *)
(* chosen with \E.                                                         *)
(***************************************************************************)
EXTENDS Naturals, Integers, Sequences, FiniteSets

VARIABLES
    impl,              \* which script runs: "git-clean" or "git-cleanup"
    isDryRun,          \* git-cleanup.js:48 (FALSE for git-clean.js: no such mode)
    pc,                \* position of main()
    exitCode,          \* process exit status, -1 while the process runs
    branchesOutput,    \* text returned by `git branch -vv`
    protectedBranches, \* the effective Protected Branch Set
    goneBranches,      \* the Candidate List
    branchesToDelete,  \* the Selection
    i,                 \* index of the for-of loop over branchesToDelete
    calls,             \* history of external calls: git commands, prompts, imports
    log,               \* history of console output
    deleted            \* branch names removed from the repository by this run

vars == <<impl, isDryRun, pc, exitCode, branchesOutput, protectedBranches,
          goneBranches, branchesToDelete, i, calls, log, deleted>>

----------------------------------------------------------------------------
(* Bounds of the model. *)

\* Number of status lines in the text of `git branch -vv` (specification Spec).
MaxLines == 2

\* Number of pieces a text is assembled from (specification SpecClassify).
MaxPieces == 4

----------------------------------------------------------------------------
(* Characters and strings. *)

\* The characters String.prototype.trim strips: the ECMAScript WhiteSpace and
\* LineTerminator characters.  A character is a string; an ASCII character is
\* the string holding it (the vertical tab written as the character itself),
\* and a character beyond ASCII, which a string literal of this module cannot
\* hold, is the string naming its code point: "U+00A0" is the one character
\* NO-BREAK SPACE.
WhiteSpace ==
    { " ", "\t", "\r", "\n", "\f", "",
      "U+00A0", "U+FEFF", "U+2028", "U+2029", "U+1680", "U+2000", "U+2001",
      "U+2002", "U+2003", "U+2004", "U+2005", "U+2006", "U+2007", "U+2008",
      "U+2009", "U+200A", "U+202F", "U+205F", "U+3000" }

\* The literal of line.includes(': gone]').
GoneMarker == <<":", " ", "g", "o", "n", "e", "]">>

\* The literal of err.message.includes('not fully merged'), as an outcome tag.
NotFullyMerged == "not fully merged"

main_ == <<"m", "a", "i", "n">>
master_ == <<"m", "a", "s", "t", "e", "r">>
develop_ == <<"d", "e", "v", "e", "l", "o", "p">>
dev_ == <<"d", "e", "v">>
prod_ == <<"p", "r", "o", "d">>
production_ == <<"p", "r", "o", "d", "u", "c", "t", "i", "o", "n">>

\* git-clean.js:39
CleanProtected == <<main_, master_, develop_, dev_>>

\* git-cleanup.js:23
CleanupDefaults == <<main_, master_, develop_, dev_, prod_, production_>>

\* s.startsWith(p)
StartsWith(s, p) == Len(s) >= Len(p) /\ SubSeq(s, 1, Len(p)) = p

RECURSIVE Includes(_, _)
\* s.includes(p): scan for the first position where p matches.
Includes(s, p) ==
    IF Len(s) < Len(p) THEN FALSE
    ELSE IF StartsWith(s, p) THEN TRUE
    ELSE Includes(Tail(s), p)

RECURSIVE SplitFrom(_, _, _)
\* The pieces of s between occurrences of the one-character separator sep;
\* cur is the piece being read.
SplitFrom(s, sep, cur) ==
    IF s = <<>> THEN <<cur>>
    ELSE IF Head(s) = sep THEN <<cur>> \o SplitFrom(Tail(s), sep, <<>>)
    ELSE SplitFrom(Tail(s), sep, Append(cur, Head(s)))

\* s.split(sep) for a one-character separator: never empty, "" gives [""].
Split(s, sep) == SplitFrom(s, sep, <<>>)

RECURSIVE TrimStart(_)
TrimStart(s) ==
    IF s # <<>> /\ Head(s) \in WhiteSpace THEN TrimStart(Tail(s)) ELSE s

RECURSIVE TrimEnd(_)
TrimEnd(s) ==
    IF s # <<>> /\ s[Len(s)] \in WhiteSpace
    THEN TrimEnd(SubSeq(s, 1, Len(s) - 1))
    ELSE s

\* s.trim()
Trim(s) == TrimEnd(TrimStart(s))

\* arr.includes(x)
ArrIncludes(arr, x) == \E k \in 1..Len(arr) : arr[k] = x

RECURSIVE Filter(_, _)
\* arr.filter(Keep): Keep is given as the set of elements to keep.
Filter(arr, keep) ==
    IF arr = <<>> THEN <<>>
    ELSE IF Head(arr) \in keep THEN <<Head(arr)>> \o Filter(Tail(arr), keep)
    ELSE Filter(Tail(arr), keep)

\* The elements of a sequence.
Range(arr) == {arr[k] : k \in 1..Len(arr)}

----------------------------------------------------------------------------
(* The Branch Classifier: git-cleanup.js:78-82, git-clean.js:41-45. *)

\* (line) => line.includes(': gone]')
IsGone(line) == Includes(line, GoneMarker)

\* A faulty variant: the line is split without being trimmed first.
BranchNameNoTrim(line) == Split(line, " ")[1]

\* (line) => line.trim().split(' ')[0]
BranchName(line) == Split(Trim(line), " ")[1]

\* branchesOutput.split('\n').filter(..).map(..).filter(..)
GoneBranches(text, protected) ==
    LET lines == Split(text, "\n")
        gone == Filter(lines, {l \in Range(lines) : IsGone(l)})
        names == [k \in 1..Len(gone) |-> BranchName(gone[k])]
    IN  Filter(names, {b \in Range(names) : ~ArrIncludes(protected, b)})

----------------------------------------------------------------------------
(* The Protected Branch Set: git-cleanup.js:21-41. *)

f_ == <<"f">>

\* The states of .git-cleanup-config.json that getProtectedBranches tells
\* apart: no file, a file that cannot be read or parsed, a JSON object with
\* no array-valued protectedBranches, and a JSON object with such an array.
ConfigFiles ==
    { [kind |-> "absent", protectedBranches |-> <<>>],
      [kind |-> "unparsable", protectedBranches |-> <<>>],
      [kind |-> "no-array", protectedBranches |-> <<>>],
      [kind |-> "array", protectedBranches |-> <<>>],
      [kind |-> "array", protectedBranches |-> <<f_, prod_>>] }

\* The value getProtectedBranches returns.
GetProtectedBranches(config) ==
    IF config.kind = "array" THEN config.protectedBranches ELSE CleanupDefaults

\* The console lines getProtectedBranches writes.
ConfigLog(config) ==
    CASE config.kind = "array" ->
            << [stream |-> "stdout", msg |-> "config-loaded", k |-> 0] >>
      [] config.kind = "unparsable" ->
            << [stream |-> "stderr", msg |-> "config-error", k |-> 0],
               [stream |-> "stdout", msg |-> "config-fallback", k |-> 0] >>
      [] OTHER ->
            << [stream |-> "stdout", msg |-> "config-defaults", k |-> 0] >>

----------------------------------------------------------------------------
(* Inputs. *)

Impls == {"git-clean", "git-cleanup"}

RECURSIVE TextsOf(_, _)
\* The texts made of at most n of the given units, concatenated.
TextsOf(units, n) ==
    IF n = 0 THEN {<<>>}
    ELSE LET shorter == TextsOf(units, n - 1)
         IN  shorter \cup {t \o u : t \in shorter, u \in units}

\* Lines of `git branch -vv`, each ended by its newline:
\*   "  f 1 [o: gone]"     a gone branch
\*   "* g 1 [o: gone]"     the checked-out branch, gone
\*   "+ h 1 [o: gone]"     a gone branch checked out in a linked worktree
\*   "  main 1 [o: gone]"  a gone branch every default list protects
\*   "  prod 1 [o: gone]"  a gone branch only git-cleanup.js protects by default
\*   "  k 1 [o]"           a branch whose upstream exists
\*   "  k 1 [o: gone]"     the same branch, gone
\*   "  <U+00A0>k 1 [o: gone]"  a gone branch whose name starts with a
\*                              no-break space
StatusLines ==
    { <<" ", " ", "f", " ", "1", " ", "[", "o">> \o GoneMarker \o <<"\n">>,
      <<"*", " ", "g", " ", "1", " ", "[", "o">> \o GoneMarker \o <<"\n">>,
      <<"+", " ", "h", " ", "1", " ", "[", "o">> \o GoneMarker \o <<"\n">>,
      <<" ", " ">> \o main_ \o <<" ", "1", " ", "[", "o">> \o GoneMarker \o <<"\n">>,
      <<" ", " ">> \o prod_ \o <<" ", "1", " ", "[", "o">> \o GoneMarker \o <<"\n">>,
      <<" ", " ", "k", " ", "1", " ", "[", "o", "]", "\n">>,
      <<" ", " ", "k", " ", "1", " ", "[", "o">> \o GoneMarker \o <<"\n">>,
      <<" ", " ", "U+00A0", "k", " ", "1", " ", "[", "o">> \o GoneMarker \o <<"\n">> }

\* The branch a line of `git branch -vv` is about: the name that follows the
\* two-character prefix ("  ", "* " or "+ ") and ends at the next space.
NamedBranch(line) ==
    LET stops == {p \in 3..Len(line) : line[p] = " "}
        to == IF stops = {} THEN Len(line)
              ELSE (CHOOSE p \in stops : \A q \in stops : p <= q) - 1
    IN  SubSeq(line, 3, to)

RECURSIVE Listings(_, _)
\* The listings of at most n of the given lines: `git branch -vv` prints one
\* line per branch, so no two lines of a listing are about the same branch.
Listings(lines, n) ==
    IF n = 0 THEN {<<>>}
    ELSE LET shorter == Listings(lines, n - 1)
             more == {p \in shorter \X lines :
                         \A j \in 1..Len(p[1]) :
                             NamedBranch(p[1][j]) # NamedBranch(p[2])}
         IN  shorter \cup {Append(p[1], p[2]) : p \in more}

RECURSIVE Concat(_)
\* The lines of a listing, joined into the text the command returns.
Concat(lines) ==
    IF lines = <<>> THEN <<>> ELSE Head(lines) \o Concat(Tail(lines))

\* The texts `git branch -vv` returns in specification Spec.
StatusTexts == {Concat(l) : l \in Listings(StatusLines, MaxLines)}

\* The elements of arr at the indexes in S, in order.
Pick(arr, S) ==
    LET F[k \in 0..Len(arr)] ==
            IF k = 0 THEN <<>>
            ELSE IF k \in S THEN Append(F[k - 1], arr[k])
            ELSE F[k - 1]
    IN  F[Len(arr)]

\* What the checkbox prompt can return: the checked choices, in the order of
\* the choices.
Selections(choices) == {Pick(choices, S) : S \in SUBSET (1..Len(choices))}

----------------------------------------------------------------------------
(* State after construction: main() is about to run. *)

NoOutput == <<>>

Init ==
    /\ impl \in Impls
    /\ isDryRun \in (IF impl = "git-cleanup" THEN BOOLEAN ELSE {FALSE})
    /\ pc = IF impl = "git-cleanup" THEN "getDependencies" ELSE "rev-parse"
    /\ exitCode = -1
    /\ branchesOutput = NoOutput
    /\ protectedBranches = <<>>
    /\ goneBranches = <<>>
    /\ branchesToDelete = <<>>
    /\ i = 0
    /\ calls = <<>>
    /\ log = <<>>
    /\ deleted = {}

Call(op, k, branch, res) == [op |-> op, k |-> k, branch |-> branch, res |-> res]

Out(msg, k) == [stream |-> "stdout", msg |-> msg, k |-> k]

Err(msg, k) == [stream |-> "stderr", msg |-> msg, k |-> k]

\* process.exit(code)
Exit(code) == pc' = "exited" /\ exitCode' = code

----------------------------------------------------------------------------
(* main(), one action per external call. *)

\* git-cleanup.js:47-52: the dynamic imports of inquirer and chalk, then the
\* dry-run banner.  A failed import rejects main().
GetDependencies ==
    /\ pc = "getDependencies"
    /\ \E res \in {"ok", "fail"} :
        /\ calls' = Append(calls, Call("import", 0, <<>>, res))
        /\ IF res = "fail"
           THEN pc' = "rejected" /\ log' = log
           ELSE /\ pc' = "rev-parse"
                /\ log' = IF isDryRun THEN Append(log, Out("dry-run-banner", 0))
                          ELSE log
    /\ UNCHANGED <<impl, isDryRun, exitCode, branchesOutput, protectedBranches,
                   goneBranches, branchesToDelete, i, deleted>>

\* A faulty variant: the guard's catch block does not exit.
RevParseNoExit ==
    /\ pc = "rev-parse"
    /\ \E res \in {"ok", "fail"} :
        /\ calls' = Append(calls, Call("rev-parse", 0, <<>>, res))
        /\ pc' = "fetch"
        /\ log' = IF res = "fail"
                  THEN log \o <<Err("not-a-repository", 0), Out("fetching", 0)>>
                  ELSE Append(log, Out("fetching", 0))
        /\ exitCode' = exitCode
    /\ UNCHANGED <<impl, isDryRun, branchesOutput, protectedBranches,
                   goneBranches, branchesToDelete, i, deleted>>

\* git-cleanup.js:55-63, git-clean.js:18-27: the Repository Guard.
RevParse ==
    /\ pc = "rev-parse"
    /\ \E res \in {"ok", "fail"} :
        /\ calls' = Append(calls, Call("rev-parse", 0, <<>>, res))
        /\ IF res = "fail"
           THEN log' = Append(log, Err("not-a-repository", 0)) /\ Exit(1)
           ELSE /\ log' = Append(log, Out("fetching", 0))
                /\ pc' = "fetch"
                /\ exitCode' = exitCode
    /\ UNCHANGED <<impl, isDryRun, branchesOutput, protectedBranches,
                   goneBranches, branchesToDelete, i, deleted>>

\* git-cleanup.js:64-72, git-clean.js:28-34: Remote Sync.
Fetch ==
    /\ pc = "fetch"
    /\ \E res \in {"ok", "fail"} :
        /\ calls' = Append(calls, Call("fetch", 0, <<>>, res))
        /\ IF res = "fail"
           THEN log' = Append(log, Err("fetch-failed", 0)) /\ Exit(1)
           ELSE log' = log /\ pc' = "branch-vv" /\ exitCode' = exitCode
    /\ UNCHANGED <<impl, isDryRun, branchesOutput, protectedBranches,
                   goneBranches, branchesToDelete, i, deleted>>

\* A faulty variant: the empty Candidate List is not detected.
NothingToDoNever(candidates) == FALSE

\* if (goneBranches.length === 0)
NothingToDo(candidates) == Len(candidates) = 0

\* git-cleanup.js:75-87, git-clean.js:38-50 with the listing text and the
\* configuration file given: the Protected Branch Set is resolved, the
\* Candidate List computed, and the process exits 0 when it is empty.
Classify(text, config) ==
    LET protected == IF impl = "git-cleanup" THEN GetProtectedBranches(config)
                     ELSE CleanProtected
        candidates == GoneBranches(text, protected)
        cfgLog == IF impl = "git-cleanup" THEN ConfigLog(config) ELSE <<>>
    IN  /\ calls' = Append(calls, Call("branch-vv", 0, <<>>, "ok"))
        /\ branchesOutput' = text
        /\ protectedBranches' = protected
        /\ goneBranches' = candidates
        /\ IF NothingToDo(candidates)
           THEN log' = log \o cfgLog \o <<Out("nothing-to-do", 0)>> /\ Exit(0)
           ELSE log' = log \o cfgLog /\ pc' = "select" /\ exitCode' = exitCode

\* The configuration files the running script can see: git-clean.js reads
\* none.
VisibleConfigs ==
    IF impl = "git-cleanup" THEN ConfigFiles
    ELSE {[kind |-> "absent", protectedBranches |-> <<>>]}

\* git-cleanup.js:75, git-clean.js:38: `git branch -vv` throws, which nothing
\* in main() catches.
ListBranchesThrows ==
    /\ pc = "branch-vv"
    /\ calls' = Append(calls, Call("branch-vv", 0, <<>>, "fail"))
    /\ pc' = "rejected"
    /\ UNCHANGED <<impl, isDryRun, exitCode, branchesOutput, protectedBranches,
                   goneBranches, branchesToDelete, i, log, deleted>>

\* git-cleanup.js:75-87, git-clean.js:38-50: the Branch Classifier.
ListBranches ==
    /\ pc = "branch-vv"
    /\ \E text \in StatusTexts, config \in VisibleConfigs : Classify(text, config)
    /\ UNCHANGED <<impl, isDryRun, branchesToDelete, i, deleted>>

\* A faulty variant: the empty Selection is not detected.
NoneSelectedNever(selection) == FALSE

\* if (branchesToDelete.length === 0)
NoneSelected(selection) == Len(selection) = 0

\* git-cleanup.js:90-100, git-clean.js:53-62: the checkbox prompt (in
\* git-clean.js, or the import of inquirer before it) rejects.
SelectRejects ==
    /\ pc = "select"
    /\ calls' = Append(calls, Call("checkbox", 0, <<>>, "reject"))
    /\ pc' = "rejected"
    /\ UNCHANGED <<impl, isDryRun, exitCode, branchesOutput, protectedBranches,
                   goneBranches, branchesToDelete, i, log, deleted>>

\* git-cleanup.js:90-107, git-clean.js:53-69: the Selection Prompt.
SelectBranches ==
    /\ pc = "select"
    /\ \E selection \in Selections(goneBranches) :
        /\ calls' = Append(calls, Call("checkbox", 0, <<>>, "ok"))
        /\ branchesToDelete' = selection
        /\ IF NoneSelected(selection)
           THEN log' = Append(log, Out("cancelled", 0)) /\ Exit(0) /\ i' = i
           ELSE /\ log' = Append(log, Out("newline", 0))
                /\ pc' = "loop"
                /\ i' = 1
                /\ exitCode' = exitCode
    /\ UNCHANGED <<impl, isDryRun, branchesOutput, protectedBranches,
                   goneBranches, deleted>>

\* A faulty variant: dry-run mode is not consulted.
SkipDeleteNever == FALSE

\* if (isDryRun): the delete command is replaced by a message.
\* git-clean.js has no such branch.
SkipDelete == isDryRun

\* The outcomes of `git branch -d <branch>`: success, the refusal of a branch
\* with unmerged commits, or another failure; a branch this run has already
\* deleted is not found.
DeleteOutcomes(branch) ==
    IF branch \in deleted THEN {"error"} ELSE {"ok", NotFullyMerged, "error"}

\* A faulty variant: every failure is taken for an unmerged branch.
IsNotFullyMergedAlways(res) == TRUE

\* err.message.includes('not fully merged')
IsNotFullyMerged(res) == res = NotFullyMerged

\* Whether the error execFileSync throws carries stderr: the error of a git
\* that ran and exited non-zero always does (a Buffer, truthy even when
\* empty); the error of a git that could not be started does not.
StderrCarried(res) == IF res = "error" THEN BOOLEAN ELSE {TRUE}

\* if (err.stderr) console.error(chalk.gray(err.stderr.toString())): after the
\* failure message git-cleanup.js writes the text git wrote to its standard
\* error when the error carries it.  git-clean.js writes the failure message
\* alone.
GitStderr(k, carried) ==
    IF impl = "git-cleanup" /\ carried THEN <<Err("git-stderr", k)>> ELSE <<>>

\* A faulty variant: a failure that is not about merging is thrown again.
AfterDeleteRethrow(branch, res, carried) ==
    IF res = "ok"
    THEN /\ deleted' = deleted \cup {branch}
         /\ log' = Append(log, Out("deleted", i))
         /\ pc' = "loop" /\ i' = i + 1
    ELSE IF IsNotFullyMerged(res)
    THEN /\ log' = Append(log, Err("unmerged-warning", i))
         /\ pc' = "confirm" /\ i' = i /\ deleted' = deleted
    ELSE /\ log' = Append(log, Err("delete-failed", i)) \o GitStderr(i, carried)
         /\ pc' = "rejected" /\ i' = i /\ deleted' = deleted

\* git-cleanup.js:115-121 and 148-153, git-clean.js:76-81 and 104-106: what
\* the loop body does with the outcome of the non-forcing delete.
AfterDelete(branch, res, carried) ==
    IF res = "ok"
    THEN /\ deleted' = deleted \cup {branch}
         /\ log' = Append(log, Out("deleted", i))
         /\ pc' = "loop" /\ i' = i + 1
    ELSE IF IsNotFullyMerged(res)
    THEN /\ log' = Append(log, Err("unmerged-warning", i))
         /\ pc' = "confirm" /\ i' = i /\ deleted' = deleted
    ELSE /\ log' = Append(log, Err("delete-failed", i)) \o GitStderr(i, carried)
         /\ pc' = "loop" /\ i' = i + 1 /\ deleted' = deleted

\* git-cleanup.js:110-121 and 148-154, git-clean.js:72-81 and 104-107: one
\* turn of the loop up to the outcome of the non-forcing delete.
DeleteBranch ==
    /\ pc = "loop"
    /\ i <= Len(branchesToDelete)
    /\ LET branch == branchesToDelete[i]
       IN  IF SkipDelete
           THEN /\ log' = Append(log, Out("would-delete", i))
                /\ i' = i + 1
                /\ UNCHANGED <<pc, calls, deleted>>
           ELSE \E res \in DeleteOutcomes(branch) :
                \E carried \in StderrCarried(res) :
                    /\ calls' = Append(calls, Call("branch -d", i, branch, res))
                    /\ AfterDelete(branch, res, carried)
    /\ UNCHANGED <<impl, isDryRun, exitCode, branchesOutput, protectedBranches,
                   goneBranches, branchesToDelete>>

\* if (forceDelete)
ForceConfirmed(answer) == answer = "yes"

\* git-cleanup.js:122-129, git-clean.js:84-91: the confirmation prompt rejects.
ConfirmRejects ==
    /\ pc = "confirm"
    /\ calls' = Append(calls, Call("confirm", i, branchesToDelete[i], "reject"))
    /\ pc' = "rejected"
    /\ UNCHANGED <<impl, isDryRun, exitCode, branchesOutput, protectedBranches,
                   goneBranches, branchesToDelete, i, log, deleted>>

\* git-cleanup.js:122-131 and 145-147, git-clean.js:84-93 and 101-103: the
\* force-delete confirmation prompt and its answer.
ConfirmForce ==
    /\ pc = "confirm"
    /\ \E answer \in {"yes", "no"} :
        /\ calls' = Append(calls, Call("confirm", i, branchesToDelete[i], answer))
        /\ IF ForceConfirmed(answer)
           THEN pc' = "force" /\ i' = i /\ log' = log
           ELSE /\ log' = Append(log, Out("skipped", i))
                /\ pc' = "loop"
                /\ i' = i + 1
    /\ UNCHANGED <<impl, isDryRun, exitCode, branchesOutput, protectedBranches,
                   goneBranches, branchesToDelete, deleted>>

\* git-cleanup.js:132-144, git-clean.js:94-100: the forcing delete.
ForceDelete ==
    /\ pc = "force"
    /\ LET branch == branchesToDelete[i]
       IN  IF SkipDelete
           THEN /\ log' = Append(log, Out("would-force-delete", i))
                /\ UNCHANGED <<calls, deleted>>
           ELSE \E res \in {"ok", "error"} :
                \E carried \in StderrCarried(res) :
                    /\ calls' = Append(calls, Call("branch -D", i, branch, res))
                    /\ IF res = "ok"
                       THEN /\ deleted' = deleted \cup {branch}
                            /\ log' = Append(log, Out("force-deleted", i))
                       ELSE /\ deleted' = deleted
                            /\ log' = Append(log, Err("force-delete-failed", i))
                                      \o GitStderr(i, carried)
    /\ pc' = "loop"
    /\ i' = i + 1
    /\ UNCHANGED <<impl, isDryRun, exitCode, branchesOutput, protectedBranches,
                   goneBranches, branchesToDelete>>

\* git-cleanup.js:157-158, git-clean.js:110-111: the loop is over, main()
\* resolves and the process ends with status 0.
Complete ==
    /\ pc = "loop"
    /\ i > Len(branchesToDelete)
    /\ log' = Append(log, Out("cleanup-complete", 0))
    /\ Exit(0)
    /\ UNCHANGED <<impl, isDryRun, branchesOutput, protectedBranches,
                   goneBranches, branchesToDelete, i, calls, deleted>>

\* git-cleanup.js:160-166, git-clean.js:113-116: the handler of main()'s
\* rejection.  git-clean.js writes the error and exits.  git-cleanup.js starts
\* the import of chalk, whose then-callback would write the error, and calls
\* process.exit(1) at once: the process ends before the callback can run.
MainCatch ==
    /\ pc = "rejected"
    /\ log' = IF impl = "git-clean" THEN Append(log, Err("unexpected-error", 0))
              ELSE log
    /\ Exit(1)
    /\ UNCHANGED <<impl, isDryRun, branchesOutput, protectedBranches,
                   goneBranches, branchesToDelete, i, calls, deleted>>

Next ==
    \/ GetDependencies
    \/ RevParse
    \/ Fetch
    \/ ListBranchesThrows
    \/ ListBranches
    \/ SelectRejects
    \/ SelectBranches
    \/ DeleteBranch
    \/ ConfirmRejects
    \/ ConfirmForce
    \/ ForceDelete
    \/ Complete
    \/ MainCatch

Spec == Init /\ [][Next]_vars

----------------------------------------------------------------------------
(* The Branch Classifier alone, on arbitrary texts. *)

\* The pieces the texts of specification SpecClassify are assembled from: a
\* name, a protected name, a space, a tab, a form feed, a no-break space, a
\* newline and the gone marker.
Pieces ==
    {f_, main_, <<" ">>, <<"\t">>, <<"\f">>, <<"U+00A0">>, <<"\n">>, GoneMarker}

\* The texts `git branch -vv` returns in specification SpecClassify.
PieceTexts == TextsOf(Pieces, MaxPieces)

\* main() has passed the Repository Guard and Remote Sync and is about to list
\* the branches.
InitClassify ==
    /\ impl \in Impls
    /\ isDryRun = FALSE
    /\ pc = "branch-vv"
    /\ exitCode = -1
    /\ branchesOutput = NoOutput
    /\ protectedBranches = <<>>
    /\ goneBranches = <<>>
    /\ branchesToDelete = <<>>
    /\ i = 0
    /\ calls = (IF impl = "git-cleanup" THEN <<Call("import", 0, <<>>, "ok")>>
                ELSE <<>>)
               \o <<Call("rev-parse", 0, <<>>, "ok"), Call("fetch", 0, <<>>, "ok")>>
    /\ log = <<Out("fetching", 0)>>
    /\ deleted = {}

\* git-cleanup.js:75-87, git-clean.js:38-50 on the texts of PieceTexts.
ClassifyText ==
    /\ pc = "branch-vv"
    /\ \E text \in PieceTexts, config \in VisibleConfigs : Classify(text, config)
    /\ UNCHANGED <<impl, isDryRun, branchesToDelete, i, deleted>>

NextClassify == ClassifyText

SpecClassify == InitClassify /\ [][NextClassify]_vars

----------------------------------------------------------------------------
(* Vocabulary of the properties. *)

CallIndexes == 1..Len(calls)

\* The status listing has returned and the Candidate List is computed.
Classified ==
    \E p \in CallIndexes : calls[p].op = "branch-vv" /\ calls[p].res = "ok"

\* The selection prompt has returned the Selection.
Selected ==
    \E p \in CallIndexes : calls[p].op = "checkbox" /\ calls[p].res = "ok"

DeleteCalls == {p \in CallIndexes : calls[p].op \in {"branch -d", "branch -D"}}

PromptCalls == {p \in CallIndexes : calls[p].op \in {"checkbox", "confirm"}}

\* An exception nothing in main() catches has been thrown.
Uncaught ==
    \E p \in CallIndexes :
        \/ calls[p].op \in {"import", "branch-vv"} /\ calls[p].res = "fail"
        \/ calls[p].op \in {"checkbox", "confirm"} /\ calls[p].res = "reject"

\* The lines of a text, read off the positions of its newlines.
LinesOfText(text) ==
    LET nl == {p \in 1..Len(text) : text[p] = "\n"}
        n == Cardinality(nl)
        NthNewline(j) == CHOOSE p \in nl : Cardinality({q \in nl : q <= p}) = j
        first(j) == IF j = 1 THEN 1 ELSE NthNewline(j - 1) + 1
        last(j) == IF j = n + 1 THEN Len(text) ELSE NthNewline(j) - 1
    IN  [j \in 1..(n + 1) |-> SubSeq(text, first(j), last(j))]

\* The line holds the literal ': gone]' at some position.
ContainsMarker(line) ==
    \E p \in 1..(Len(line) - 6) : SubSeq(line, p, p + 6) = GoneMarker

\* The first token of a line that holds a character outside WhiteSpace: from
\* its first such character up to the first delimiter after it.
FirstToken(line, delims) ==
    LET ink == {p \in 1..Len(line) : line[p] \notin WhiteSpace}
        from == CHOOSE p \in ink : \A q \in ink : p <= q
        stops == {p \in from..Len(line) : line[p] \in delims}
        to == IF stops = {} THEN Len(line)
              ELSE (CHOOSE p \in stops : \A q \in stops : p <= q) - 1
    IN  SubSeq(line, from, to)

\* The first tokens of the lines holding the marker, in line order, without
\* the protected names.
MarkedTokens(text, protected, delims) ==
    LET marked == SelectSeq(LinesOfText(text), ContainsMarker)
        tokens == [k \in 1..Len(marked) |-> FirstToken(marked[k], delims)]
    IN  SelectSeq(tokens, LAMBDA b : \A k \in 1..Len(protected) : protected[k] # b)

----------------------------------------------------------------------------
(* C1 *)

\* C1, as stated: the Candidate List is the sequence of the first
\* whitespace-delimited tokens of the lines containing ': gone]', in line
\* order, without the names of the Protected Branch Set.
C1_WhitespaceTokens ==
    Classified =>
        goneBranches = MarkedTokens(branchesOutput, protectedBranches, WhiteSpace)

\* C1, amended: the Candidate List is the sequence of the first tokens
\* delimited by the space character U+0020, taken after the line's leading
\* whitespace is stripped, of the lines containing ': gone]', in line order,
\* without the names of the Protected Branch Set; nothing else is added,
\* dropped or de-duplicated.
C1_SpaceTokens ==
    Classified =>
        goneBranches = MarkedTokens(branchesOutput, protectedBranches, {" "})

\* A gone line with leading whitespace whose first token holds a tab has been
\* classified, and its token is a candidate.
C1_Witness ==
    /\ Classified
    /\ \E line \in Range(LinesOfText(branchesOutput)) :
        /\ ContainsMarker(line)
        /\ line[1] \in WhiteSpace
        /\ "\t" \in Range(FirstToken(line, {" "}))
        /\ FirstToken(line, {" "}) \in Range(goneBranches)

----------------------------------------------------------------------------
(* C2 *)

\* C2: in dry-run mode no delete command, forcing or not, is ever invoked,
\* and no branch is removed, whatever the Selection and the answers.
C2_DryRunNeverDeletes ==
    isDryRun => DeleteCalls = {} /\ deleted = {}

\* A dry run has gone through a Selection of two branches and completed.
C2_Witness ==
    /\ isDryRun
    /\ pc = "exited"
    /\ Len(branchesToDelete) = 2
    /\ \E e \in Range(log) : e.msg = "would-delete" /\ e.k = 2

----------------------------------------------------------------------------
(* C3 *)

\* C3: once the Candidate List is computed and empty, the process has exited
\* with status 0, and no selection prompt, no confirmation prompt and no
\* delete command is issued in the run.
C3_EmptyCandidatesExitZero ==
    (Classified /\ goneBranches = <<>>) =>
        /\ pc = "exited"
        /\ exitCode = 0
        /\ PromptCalls = {}
        /\ DeleteCalls = {}

\* The listing held a gone branch, and the Candidate List is empty because
\* the branch is protected.
C3_Witness ==
    /\ Classified
    /\ goneBranches = <<>>
    /\ \E line \in Range(LinesOfText(branchesOutput)) : ContainsMarker(line)
    /\ exitCode = 0

----------------------------------------------------------------------------
(* C4 *)

\* C4: once the selection prompt has returned an empty Selection, the process
\* has exited with status 0 and no delete command is invoked in the run.
C4_EmptySelectionExitZero ==
    (Selected /\ branchesToDelete = <<>>) =>
        /\ pc = "exited"
        /\ exitCode = 0
        /\ DeleteCalls = {}
        /\ deleted = {}

\* The user was offered two candidates and confirmed an empty Selection.
C4_Witness ==
    /\ Selected
    /\ branchesToDelete = <<>>
    /\ Len(goneBranches) = 2
    /\ pc = "exited"

----------------------------------------------------------------------------
(* C5 *)

\* The console line that opens the handling of a selected branch.
OpeningMessages == {"deleted", "would-delete", "unmerged-warning", "delete-failed"}

\* The selected entries handled so far, in the order they were handled.
Handled == SelectSeq(log, LAMBDA e : e.msg \in OpeningMessages)

\* A prompt has rejected: an exception of the top-level flow, not a failure of
\* a delete.
PromptRejected ==
    \E p \in CallIndexes : calls[p].op \in {"checkbox", "confirm"} /\ calls[p].res = "reject"

\* C5: the selected branches are handled one by one in Selection order; no
\* failed delete (of any kind), failed force delete or declined force delete
\* makes main() reject; and a run that entered the loop and saw no prompt
\* reject ends with every selected branch handled, the completion message
\* written and exit status 0.
C5_FailuresDoNotAbortBatch ==
    /\ \A j \in 1..Len(Handled) : Handled[j].k = j
    /\ Len(Handled) <= Len(branchesToDelete)
    /\ pc = "rejected" =>
            /\ calls[Len(calls)].op \in {"import", "branch-vv", "checkbox", "confirm"}
            /\ calls[Len(calls)].res \in {"fail", "reject"}
    /\ (pc = "exited" /\ Selected /\ branchesToDelete # <<>> /\ ~PromptRejected) =>
            /\ exitCode = 0
            /\ Len(Handled) = Len(branchesToDelete)
            /\ log[Len(log)].msg = "cleanup-complete"

\* A run completed after the first selected branch failed its force delete
\* and the second failed its delete for a reason other than merging.
C5_Witness ==
    /\ pc = "exited"
    /\ exitCode = 0
    /\ Len(branchesToDelete) = 2
    /\ \E p \in CallIndexes :
        calls[p].op = "branch -D" /\ calls[p].k = 1 /\ calls[p].res = "error"
    /\ \E p \in CallIndexes :
        calls[p].op = "branch -d" /\ calls[p].k = 2 /\ calls[p].res = "error"

----------------------------------------------------------------------------
(* C6 *)

\* C6: a failed Repository Guard or a failed fetch is the last external call
\* of the run, which has exited with status 1; and the status listing is
\* invoked only after the guard and then the fetch have succeeded.
C6_GuardAndFetchAbort ==
    /\ \A p \in CallIndexes :
        (calls[p].op \in {"rev-parse", "fetch"} /\ calls[p].res = "fail") =>
            /\ p = Len(calls)
            /\ pc = "exited"
            /\ exitCode = 1
    /\ \A p \in CallIndexes :
        calls[p].op = "branch-vv" =>
            \E q \in 1..(p - 1) :
                /\ q + 1 = p
                /\ calls[q] = Call("fetch", 0, <<>>, "ok")
                /\ q > 1
                /\ calls[q - 1] = Call("rev-parse", 0, <<>>, "ok")

\* The guard succeeded, the fetch failed and the process exited.
C6_Witness ==
    /\ pc = "exited"
    /\ Len(calls) >= 2
    /\ calls[Len(calls)] = Call("fetch", 0, <<>>, "fail")
    /\ calls[Len(calls) - 1] = Call("rev-parse", 0, <<>>, "ok")

----------------------------------------------------------------------------
(* C7 *)

\* C7: when the process has exited after an exception nothing in main()
\* caught, its exit status is 1 and a diagnostic message has been written to
\* standard error.
C7_UncaughtExitsWithDiagnostic ==
    (pc = "exited" /\ Uncaught) =>
        /\ exitCode = 1
        /\ \E e \in Range(log) : e.stream = "stderr" /\ e.msg = "unexpected-error"

----------------------------------------------------------------------------
(* C8 *)

ConfirmCallsOf(k) == {p \in CallIndexes : calls[p].op = "confirm" /\ calls[p].k = k}

\* C8: every non-forcing delete that fails with 'not fully merged' is followed
\* at once by the confirmation prompt for the same selected branch; every
\* confirmation prompt directly follows such a failure of the same selected
\* branch; and no selected branch is prompted for more than once.
C8_OnePromptPerUnmergedFailure ==
    /\ \A p \in CallIndexes :
        (calls[p].op = "branch -d" /\ calls[p].res = NotFullyMerged) =>
            IF p = Len(calls)
            THEN pc = "confirm" /\ i = calls[p].k
            ELSE /\ calls[p + 1].op = "confirm"
                 /\ calls[p + 1].k = calls[p].k
                 /\ calls[p + 1].branch = calls[p].branch
    /\ \A p \in CallIndexes :
        calls[p].op = "confirm" =>
            /\ p > 1
            /\ calls[p - 1].op = "branch -d"
            /\ calls[p - 1].res = NotFullyMerged
            /\ calls[p - 1].k = calls[p].k
    /\ pc = "confirm" =>
            /\ calls[Len(calls)].op = "branch -d"
            /\ calls[Len(calls)].res = NotFullyMerged
    /\ \A k \in 1..Len(branchesToDelete) : Cardinality(ConfirmCallsOf(k)) <= 1

\* A run ended in which one selected branch was refused as unmerged and
\* prompted for, and another failed for a different reason.
C8_Witness ==
    /\ pc = "exited"
    /\ \E p \in CallIndexes :
        calls[p].op = "branch -d" /\ calls[p].res = NotFullyMerged
    /\ \E p \in CallIndexes :
        calls[p].op = "branch -d" /\ calls[p].res = "error"
    /\ Cardinality(PromptCalls) = 2

----------------------------------------------------------------------------
(* C9 *)

\* A forcing delete directly follows the yes to the prompt that directly
\* follows the 'not fully merged' failure of the same Selection entry.
ForceOnlyAfterConfirmedUnmerged ==
    \A p \in CallIndexes :
        calls[p].op = "branch -D" =>
            /\ p > 2
            /\ calls[p - 1].op = "confirm"
            /\ calls[p - 1].res = "yes"
            /\ calls[p - 1].k = calls[p].k
            /\ calls[p - 2].op = "branch -d"
            /\ calls[p - 2].res = NotFullyMerged
            /\ calls[p - 2].k = calls[p].k
            /\ calls[p - 2].branch = calls[p].branch

Declines == {p \in CallIndexes : calls[p].op = "confirm" /\ calls[p].res = "no"}

\* C9: a forcing delete is invoked only after the non-forcing
\* delete of the same branch failed with 'not fully merged' and the user
\* answered yes; after a decline no further delete command is issued for that
\* branch, and the branch is still in the repository when the run ends.
C9_DeclinedBranchRemains ==
    /\ ForceOnlyAfterConfirmedUnmerged
    /\ \A p \in Declines :
        /\ \A q \in DeleteCalls : q > p => calls[q].branch # calls[p].branch
        /\ pc = "exited" => calls[p].branch \notin deleted

----------------------------------------------------------------------------
(* C10 *)

\* The built-in Protected Branch Set of the running script.
BuiltInProtected ==
    IF impl = "git-cleanup" THEN CleanupDefaults ELSE CleanProtected

\* The configuration file's array was loaded.
ConfigLoaded == \E e \in Range(log) : e.msg = "config-loaded"

\* C10: every delete command names the Selection entry the loop is at; the
\* Selection is drawn from the Candidate List; no delete command names a
\* member of the effective Protected Branch Set (the configuration file's
\* array when loaded, otherwise the built-in defaults), nor a branch whose
\* status line lacks ': gone]'; and each entry of the Selection receives at
\* most one non-forcing and at most one forcing delete invocation.
C10_DeletesOnlyGoneUnprotected ==
    /\ \A p \in DeleteCalls :
        /\ calls[p].k \in 1..Len(branchesToDelete)
        /\ calls[p].branch = branchesToDelete[calls[p].k]
        /\ calls[p].branch \notin Range(protectedBranches)
        /\ ~ConfigLoaded => calls[p].branch \notin Range(BuiltInProtected)
        /\ \A line \in Range(LinesOfText(branchesOutput)) :
            NamedBranch(line) = calls[p].branch => ContainsMarker(line)
    /\ Range(branchesToDelete) \subseteq Range(goneBranches)
    /\ Classified =>
            /\ ConfigLoaded \/ protectedBranches = BuiltInProtected
            /\ Range(goneBranches) \cap Range(protectedBranches) = {}
    /\ \A k \in 1..Len(branchesToDelete), op \in {"branch -d", "branch -D"} :
        Cardinality({p \in DeleteCalls : calls[p].op = op /\ calls[p].k = k}) <= 1

====
